---- MODULE Spec2Model ----
(***************************************************************************)
(* QAOA extra features of Intel-QS (util/extra_features/qaoa_features.cpp) *)
(* as a state machine: a group of MPI ranks, each running OpenMP threads,  *)
(* executes one call of one of the functions of the file.                  *)
(*                                                                         *)
(* Build modelled: INTELQS_HAS_MPI defined, assertions enabled (no NDEBUG).*)
(* Amplitudes are Gaussian integers <<re, im>>; norm(z) = re^2 + im^2 is   *)
(* then exact, so sums are compared exactly instead of within a tolerance. *)
(*                                                                         *)
(* Granularity: one step of a thread runs its whole share of the `omp for` *)
(* loop.  The iterations of a thread touch only thread-private variables   *)
(* and array elements no other thread touches, so finer steps add no       *)
(* behaviour.  What threads share (the reduction variable, local_hist) is  *)
(* updated in steps of its own, in every order.                            *)
(***************************************************************************)
EXTENDS Integers, Sequences, FiniteSets, TLC

VARIABLES
  op,                 \* the function every rank calls
  nqubits,            \* NumQubits() of the register the call loops over
  nprocs,             \* number of ranks of the state communicator
  schedule,           \* how `omp for` splits the iterations among the threads
  adjacency,          \* std::vector<int> & adjacency (row-major)
  gamma,              \* the angle, in quarter turns (units of pi/2)
  max_value,          \* the int max_value of GetHistogramFromCostFunction
  psi_in,             \* psi as it was at the call
  psi,                \* psi[p]: the local part of the state, a sequence of <<re, im>>
  diag,               \* diag[p]: the local part of the cost register (real parts)
  ppc,                \* ppc[p]: where rank p is in the call
  tpc,                \* tpc[p][t]: where thread t of rank p is in the parallel region
  max_cut,            \* max_cut[p]
  local_expectation,  \* local_expectation[p]
  local_hist,         \* local_hist[p]
  arrived,            \* the ranks that have entered the MPI_Allreduce of the call
  sendbuf,            \* sendbuf[p]: what rank p handed to the MPI_Allreduce
  ret,                \* ret[p]: what the call returned on rank p
  nreduce,            \* nreduce[p]: collective reductions rank p has issued
  kin,                \* utility: the decimal number given to ConvertToBinary
  z,                  \* utility: the binary vector
  k,                  \* utility: the decimal number ConvertToDecimal writes
  cpc                 \* utility: where the round trip is

(* What a call is given and leaves alone *)
given == <<op, nqubits, nprocs, schedule, adjacency, gamma, max_value, psi_in>>
utility == <<kin, z, k, cpc>>

vars == <<given, psi, diag, ppc, tpc, max_cut, local_expectation, local_hist,
          arrived, sendbuf, ret, nreduce, utility>>

----------------------------------------------------------------------------
(* Bounds of the model *)

(* Registers of 1 .. MaxQubits qubits (graphs of as many vertices) *)
MaxQubits == 3
(* An edge is absent, of weight one, or of weight MaxWeight *)
MaxWeight == 2
(* OpenMP threads of a rank *)
NumThreads == 2
(* Binary vectors of 0 .. MaxWidth bits *)
MaxWidth == 5

Weights == {0, 1, MaxWeight}

(* Intel-QS runs on a power of two of ranks.  <<n, np>>: a register of n
   qubits on np ranks; four ranks are modelled on the two-qubit register,
   where every rank holds one amplitude. *)
Partitions == ((1 .. MaxQubits) \X {1, 2}) \cup {<<2, 4>>}

(* The two usual ways an `omp for` without a schedule clause is split *)
Schedules == {"block", "cyclic"}

Threads == 0 .. NumThreads - 1
Procs == 0 .. nprocs - 1

----------------------------------------------------------------------------
(* Arithmetic of C *)

Max(a, b) == IF a >= b THEN a ELSE b

(* int division truncates toward zero *)
CDiv(a, b) == IF a >= 0 THEN a \div b ELSE -((-a) \div b)

(* a % 2 == 0 *)
IsEven(a) == a % 2 = 0

(* INT_MIN: the initial value of the private copy of a max reduction *)
IntMin == -2147483647 - 1

RECURSIVE SeqSum(_)
SeqSum(s) == IF s = <<>> THEN 0 ELSE s[1] + SeqSum(Tail(s))

RECURSIVE SeqMax(_)
SeqMax(s) == IF Len(s) = 1 THEN s[1] ELSE Max(s[1], SeqMax(Tail(s)))

----------------------------------------------------------------------------
(* namespace utility *)

TooLargeDecimal(kk, zz) == kk >= 2 ^ Len(zz)

RECURSIVE BinaryLoop(_, _, _)
BinaryLoop(kk, zz, pos) ==
  IF pos < Len(zz)
  THEN BinaryLoop(kk \div 2, [zz EXCEPT ![pos + 1] = kk % 2], pos + 1)
  ELSE zz

(* Mutant: the bits written most significant first *)
ConvertToBinaryMsbFirst(kk, zz) ==
  [pos \in 1 .. Len(zz) |-> BinaryLoop(kk, zz, 0)[Len(zz) + 1 - pos]]

ConvertToBinary(kk, zz) == BinaryLoop(kk, zz, 0)

RECURSIVE DecimalLoop(_, _, _)
DecimalLoop(zz, kk, pos) ==
  IF pos > 0
  THEN DecimalLoop(zz, (kk + zz[pos + 1]) * 2, pos - 1)
  ELSE kk

(* for a vector of at least one element *)
ConvertToDecimal(zz) == DecimalLoop(zz, 0, Len(zz) - 1) + zz[1]

----------------------------------------------------------------------------
(* The distributed register *)

GlobalSize(n) == 2 ^ n
LocalSize(n, np) == GlobalSize(n) \div np

(* glb_start = myrank * LocalSize() *)
GlbStart(p, n, np) == p * LocalSize(n, np)

(* Whether thread t runs iteration i of an `omp for` over 0 .. N-1 *)
ChunkSize(N) == (N + NumThreads - 1) \div NumThreads
RunsIteration(t, i, N, sched) ==
  IF sched = "block" THEN i \div ChunkSize(N) = t ELSE i % NumThreads = t

(* Mutant: no barrier, the master thread goes on alone *)
RegionJoinedMasterOnly(p) == tpc[p][0] = "merged"

(* The implicit barrier closing a parallel region: every thread is through *)
RegionJoined(p) == \A t \in Threads : tpc[p][t] = "merged"

----------------------------------------------------------------------------
(* InitializeVectorAsMaxCutCostFunction *)

Adj(adj, n, v, u) == adj[v * n + u + 1]

NullDiagonal(adj, n) == \A v \in 0 .. n - 1 : Adj(adj, n, v, v) = 0

(* Mutant: every edge counted once, the pairs v < u only *)
RECURSIVE QuadraticLoopUpper(_, _, _, _)
QuadraticLoopUpper(adj, n, xbin, e) ==
  IF e > n * n THEN 0
  ELSE (IF (e - 1) \div n < (e - 1) % n
        THEN adj[e] * xbin[((e - 1) \div n) + 1] * xbin[((e - 1) % n) + 1]
        ELSE 0)
       + QuadraticLoopUpper(adj, n, xbin, e + 1)

(* cut += adjacency[v*num_vertices + u] * xbin[v] * xbin[u] over all v, u *)
RECURSIVE QuadraticLoop(_, _, _, _)
QuadraticLoop(adj, n, xbin, e) ==
  IF e > n * n THEN 0
  ELSE adj[e] * xbin[((e - 1) \div n) + 1] * xbin[((e - 1) % n) + 1]
       + QuadraticLoop(adj, n, xbin, e + 1)

(* From binary vector of {0,1} to binary vector of {-1,1} *)
Remap(xbin) == [v \in 1 .. Len(xbin) |-> IF xbin[v] = 0 THEN -1 ELSE xbin[v]]

(* Compute x^T.ADJ.x for global index x (lines 129-140) *)
QuadraticForm(adj, n, x) ==
  QuadraticLoop(adj, n, Remap(ConvertToBinary(x, [v \in 1 .. n |-> 0])), 1)

(* lines 141-144, from cut = x^T.ADJ.x: the cut stored, and whether both
   assertions pass *)
CutOfForm(q, num_edges) ==
  [ok  |-> IsEven(q) /\ IsEven(num_edges - CDiv(q, 2)),
   cut |-> CDiv(num_edges - CDiv(q, 2), 2)]

(* The body of the loop for global index x *)
CutOfIndex(adj, n, num_edges, x) ==
  CutOfForm(QuadraticForm(adj, n, x), num_edges)

(* Maximum of a set of integers, from a starting value *)
SetMax(S, init) ==
  IF S = {} THEN init
  ELSE Max(init, CHOOSE m \in S : \A o \in S : o <= m)

(* The local iterations of thread t *)
IterationsOf(t, N) == {i \in 0 .. N - 1 : RunsIteration(t, i, N, schedule)}

(* What the iterations of a thread leave, r[i] being the outcome of the
   body at iteration i: the diag, the private max_cut, and whether no
   assertion failed.  An assertion that fails stops the rank at that
   iteration: the iterations before it have written diag. *)
ChunkOutcome(r, d0) ==
  LET bad == {i \in DOMAIN r : ~r[i].ok}
      ran == {i \in DOMAIN r : \A b \in bad : i < b}
  IN  [ok |-> bad = {},
       d  |-> [i \in 1 .. Len(d0) |->
                 IF (i - 1) \in ran THEN r[i - 1].cut ELSE d0[i]],
       m  |-> SetMax({r[i].cut : i \in ran}, IntMin)]

BuildChunk(adj, n, num_edges, start, N, t, d0) ==
  ChunkOutcome([i \in IterationsOf(t, N) |->
                  CutOfIndex(adj, n, num_edges, start + i)], d0)

(* reduction(max: max_cut): the private copy is folded into the original *)
ReduceMax(original, private) == Max(original, private)

RECURSIVE SeqMin(_)
SeqMin(s) == IF Len(s) = 1 THEN s[1] ELSE -Max(-s[1], -SeqMin(Tail(s)))

(* Mutant: MPI_MIN in place of MPI_MAX *)
AllreduceMin(buf) == SeqMin([i \in 1 .. nprocs |-> buf[i - 1]])

(* MPI_Allreduce(..., MPI_MAX, comm) *)
AllreduceMax(buf) == SeqMax([i \in 1 .. nprocs |-> buf[i - 1]])

(* lines 95-108: the checks on the adjacency matrix *)
BuildEntry(p) ==
  /\ op = "build"
  /\ ppc[p] = "entry"
  /\ IF /\ Len(adjacency) = nqubits * nqubits
        /\ NullDiagonal(adjacency, nqubits)
        /\ IsEven(SeqSum(adjacency))
     THEN ppc' = [ppc EXCEPT ![p] = "parallel"]
     ELSE ppc' = [ppc EXCEPT ![p] = "aborted"]
  /\ max_cut' = [max_cut EXCEPT ![p] = 0]
  /\ UNCHANGED <<given, utility, psi, diag, tpc, local_expectation, local_hist, arrived, sendbuf, ret, nreduce>>

(* lines 121-149: thread t of rank p runs its iterations, then its private
   max_cut is reduced into max_cut *)
BuildThread(p, t) ==
  /\ op = "build"
  /\ ppc[p] = "parallel"
  /\ tpc[p][t] = "todo"
  /\ \E st \in {BuildChunk(adjacency, nqubits, SeqSum(adjacency) \div 2,
                           GlbStart(p, nqubits, nprocs),
                           LocalSize(nqubits, nprocs), t, diag[p])} :
       /\ diag' = [diag EXCEPT ![p] = st.d]
       /\ IF st.ok
          THEN /\ max_cut' = [max_cut EXCEPT ![p] = ReduceMax(max_cut[p], st.m)]
               /\ tpc' = [tpc EXCEPT ![p][t] = "merged"]
               /\ ppc' = ppc
          ELSE /\ ppc' = [ppc EXCEPT ![p] = "aborted"]
               /\ UNCHANGED <<max_cut, tpc>>
  /\ UNCHANGED <<given, utility, psi, local_expectation, local_hist, arrived, sendbuf, ret, nreduce>>

(* lines 151-154: the rank enters MPI_Allreduce with its local maximum *)
BuildAllreduce(p) ==
  /\ op = "build"
  /\ ppc[p] = "parallel"
  /\ RegionJoined(p)
  /\ sendbuf' = [sendbuf EXCEPT ![p] = max_cut[p]]
  /\ arrived' = arrived \cup {p}
  /\ nreduce' = [nreduce EXCEPT ![p] = @ + 1]
  /\ ppc' = [ppc EXCEPT ![p] = "reduce"]
  /\ UNCHANGED <<given, utility, psi, diag, tpc, max_cut, local_expectation, local_hist, ret>>

(* lines 154-157: the reduction completes once every rank has entered it *)
BuildReturn(p) ==
  /\ op = "build"
  /\ ppc[p] = "reduce"
  /\ arrived = Procs
  /\ max_cut' = [max_cut EXCEPT ![p] = AllreduceMax(sendbuf)]
  /\ ret' = [ret EXCEPT ![p] = AllreduceMax(sendbuf)]
  /\ ppc' = [ppc EXCEPT ![p] = "done"]
  /\ UNCHANGED <<given, utility, psi, diag, tpc, local_expectation, local_hist, arrived, sendbuf, nreduce>>

----------------------------------------------------------------------------
(* Complex amplitudes *)

(* norm(z): the squared magnitude *)
Norm(a) == a[1] * a[1] + a[2] * a[2]

(* operator*= of std::complex *)
ComplexTimes(a, b) == <<a[1] * b[1] - a[2] * b[2], a[1] * b[2] + a[2] * b[1]>>

(* std::cos and std::sin of an angle of q quarter turns *)
CosQuarter(q) == CASE q % 4 = 0 -> 1 [] q % 4 = 1 -> 0 [] q % 4 = 2 -> -1 [] OTHER -> 0
SinQuarter(q) == CASE q % 4 = 0 -> 0 [] q % 4 = 1 -> 1 [] q % 4 = 2 -> 0 [] OTHER -> -1

(* Sum of f over the set S of integers *)
RECURSIVE SumOver(_, _)
SumOver(f, S) ==
  IF S = {} THEN 0
  ELSE LET i == CHOOSE j \in S : \A o \in S : j <= o
       IN  f[i] + SumOver(f, S \ {i})

(* The local and global sizes of a register *)
LocalSizeOf(reg, p) == Len(reg[p])
GlobalSizeOf(reg) == SumOver([q \in Procs |-> Len(reg[q])], Procs)

(* assert( psi.LocalSize( ) == diag.LocalSize( ) );
   assert( psi.GlobalSize() == diag.GlobalSize() ); *)
SameSizes(p) ==
  /\ LocalSizeOf(psi, p) = LocalSizeOf(diag, p)
  /\ GlobalSizeOf(psi) = GlobalSizeOf(diag)

----------------------------------------------------------------------------
(* ImplementQaoaLayerBasedOnCostFunction *)

(* Mutant: the sine taken of gamma alone *)
PhaseFactorSineOfGamma(g, cost) == <<CosQuarter(g * cost), -SinQuarter(g)>>

(* Type( std::cos(gamma* diag[i].real()) , -std::sin(gamma* diag[i].real()) ) *)
PhaseFactor(g, cost) == <<CosQuarter(g * cost), -SinQuarter(g * cost)>>

(* lines 172-173 *)
PhaseEntry(p) ==
  /\ op = "phase"
  /\ ppc[p] = "entry"
  /\ IF SameSizes(p)
     THEN ppc' = [ppc EXCEPT ![p] = "parallel"]
     ELSE ppc' = [ppc EXCEPT ![p] = "aborted"]
  /\ UNCHANGED <<given, utility, psi, diag, tpc, max_cut, local_expectation,
                 local_hist, arrived, sendbuf, ret, nreduce>>

(* lines 179-181: thread t of rank p multiplies the amplitudes of its
   iterations *)
PhaseThread(p, t) ==
  /\ op = "phase"
  /\ ppc[p] = "parallel"
  /\ tpc[p][t] = "todo"
  /\ \E mine \in {IterationsOf(t, LocalSizeOf(psi, p))} :
       psi' = [psi EXCEPT ![p] =
                 [i \in 1 .. Len(psi[p]) |->
                    IF (i - 1) \in mine
                    THEN ComplexTimes(psi[p][i], PhaseFactor(gamma, diag[p][i]))
                    ELSE psi[p][i]]]
  /\ tpc' = [tpc EXCEPT ![p][t] = "merged"]
  /\ UNCHANGED <<given, utility, diag, ppc, max_cut, local_expectation,
                 local_hist, arrived, sendbuf, ret, nreduce>>

(* line 182: the function returns after the parallel loop *)
PhaseReturn(p) ==
  /\ op = "phase"
  /\ ppc[p] = "parallel"
  /\ RegionJoined(p)
  /\ ppc' = [ppc EXCEPT ![p] = "done"]
  /\ UNCHANGED <<given, utility, psi, diag, tpc, max_cut, local_expectation,
                 local_hist, arrived, sendbuf, ret, nreduce>>

----------------------------------------------------------------------------
(* GetExpectationValueFromCostFunction *)

(* The private local_expectation of thread t after its iterations
   (lines 200-203) *)
ExpectChunk(ps, dg, t) ==
  SumOver([i \in 0 .. Len(ps) - 1 |-> dg[i + 1] * Norm(ps[i + 1])],
          IterationsOf(t, Len(ps)))

(* Mutant: the private sum stored over the shared one (no reduction clause) *)
ReduceSumOverwrite(original, private) == private

(* reduction(+: local_expectation) *)
ReduceSum(original, private) == original + private

(* Mutant: MPI_MAX in place of MPI_SUM *)
AllreduceSumAsMax(buf) == SeqMax([i \in 1 .. nprocs |-> buf[i - 1]])

(* MPI_Allreduce_x(..., 1, MPI_SUM, comm) *)
AllreduceSum(buf) == SumOver(buf, Procs)

(* line 197: no check of the sizes is made *)
ExpectEntry(p) ==
  /\ op = "expect"
  /\ ppc[p] = "entry"
  /\ local_expectation' = [local_expectation EXCEPT ![p] = 0]
  /\ ppc' = [ppc EXCEPT ![p] = "parallel"]
  /\ UNCHANGED <<given, utility, psi, diag, tpc, max_cut, local_hist,
                 arrived, sendbuf, ret, nreduce>>

(* lines 199-203 *)
ExpectThread(p, t) ==
  /\ op = "expect"
  /\ ppc[p] = "parallel"
  /\ tpc[p][t] = "todo"
  /\ local_expectation' =
       [local_expectation EXCEPT
          ![p] = ReduceSum(@, ExpectChunk(psi[p], diag[p], t))]
  /\ tpc' = [tpc EXCEPT ![p][t] = "merged"]
  /\ UNCHANGED <<given, utility, psi, diag, ppc, max_cut, local_hist,
                 arrived, sendbuf, ret, nreduce>>

(* lines 205-207: the rank enters the reduction with its local sum *)
ExpectAllreduce(p) ==
  /\ op = "expect"
  /\ ppc[p] = "parallel"
  /\ RegionJoined(p)
  /\ sendbuf' = [sendbuf EXCEPT ![p] = local_expectation[p]]
  /\ arrived' = arrived \cup {p}
  /\ nreduce' = [nreduce EXCEPT ![p] = @ + 1]
  /\ ppc' = [ppc EXCEPT ![p] = "reduce"]
  /\ UNCHANGED <<given, utility, psi, diag, tpc, max_cut, local_expectation,
                 local_hist, ret>>

(* lines 207-211 *)
ExpectReturn(p) ==
  /\ op = "expect"
  /\ ppc[p] = "reduce"
  /\ arrived = Procs
  /\ ret' = [ret EXCEPT ![p] = AllreduceSum(sendbuf)]
  /\ ppc' = [ppc EXCEPT ![p] = "done"]
  /\ UNCHANGED <<given, utility, psi, diag, tpc, max_cut, local_expectation,
                 local_hist, arrived, sendbuf, nreduce>>

----------------------------------------------------------------------------
(* GetHistogramFromCostFunction *)

(* for (int n=0; n<=max_value; ++n) hist[n]=0; *)
ZeroHist(mv) == [n \in 1 .. mv + 1 |-> 0]

(* assert( cut>=0 && cut <= max_value ) at every iteration of thread t *)
CutsInRange(dg, mine, mv) == \A i \in mine : dg[i + 1] >= 0 /\ dg[i + 1] <= mv

(* private_hist of a thread after its iterations (lines 246-258) *)
PrivateHist(ps, dg, mine, mv) ==
  [n \in 1 .. mv + 1 |->
     SumOver([i \in 0 .. Len(ps) - 1 |-> Norm(ps[i + 1])],
             {i \in mine : dg[i + 1] = n - 1})]

(* Mutant: local_hist[n] = private_hist[n] *)
MergeHistOverwrite(local, private) == private

(* the critical section: local_hist[n] += private_hist[n] *)
MergeHist(local, private) == [n \in 1 .. Len(local) |-> local[n] + private[n]]

(* MPI_Allreduce_x(local_hist, global_hist.data(), max_value+1, MPI_SUM, comm) *)
AllreduceSumHist(buf, mv) ==
  [n \in 1 .. mv + 1 |-> SumOver([q \in Procs |-> buf[q][n]], Procs)]

(* lines 230-239 *)
HistEntry(p) ==
  /\ op = "hist"
  /\ ppc[p] = "entry"
  /\ IF SameSizes(p) /\ max_value > 0
     THEN /\ ppc' = [ppc EXCEPT ![p] = "parallel"]
          /\ local_hist' = [local_hist EXCEPT ![p] = ZeroHist(max_value)]
     ELSE /\ ppc' = [ppc EXCEPT ![p] = "aborted"]
          /\ UNCHANGED local_hist
  /\ UNCHANGED <<given, utility, psi, diag, tpc, max_cut, local_expectation,
                 arrived, sendbuf, ret, nreduce>>

(* lines 241-264: thread t of rank p fills its private_hist, then adds it
   to local_hist inside the critical section *)
HistThread(p, t) ==
  /\ op = "hist"
  /\ ppc[p] = "parallel"
  /\ tpc[p][t] = "todo"
  /\ \E mine \in {IterationsOf(t, LocalSizeOf(psi, p))} :
       IF CutsInRange(diag[p], mine, max_value)
       THEN /\ local_hist' =
                 [local_hist EXCEPT
                    ![p] = MergeHist(@, PrivateHist(psi[p], diag[p], mine,
                                                    max_value))]
            /\ tpc' = [tpc EXCEPT ![p][t] = "merged"]
            /\ ppc' = ppc
       ELSE /\ ppc' = [ppc EXCEPT ![p] = "aborted"]
            /\ UNCHANGED <<local_hist, tpc>>
  /\ UNCHANGED <<given, utility, psi, diag, max_cut, local_expectation,
                 arrived, sendbuf, ret, nreduce>>

(* lines 267-271: the rank enters the reduction with its local histogram *)
HistAllreduce(p) ==
  /\ op = "hist"
  /\ ppc[p] = "parallel"
  /\ RegionJoined(p)
  /\ sendbuf' = [sendbuf EXCEPT ![p] = local_hist[p]]
  /\ arrived' = arrived \cup {p}
  /\ nreduce' = [nreduce EXCEPT ![p] = @ + 1]
  /\ ppc' = [ppc EXCEPT ![p] = "reduce"]
  /\ UNCHANGED <<given, utility, psi, diag, tpc, max_cut, local_expectation,
                 local_hist, ret>>

(* lines 271-277 *)
HistReturn(p) ==
  /\ op = "hist"
  /\ ppc[p] = "reduce"
  /\ arrived = Procs
  /\ ret' = [ret EXCEPT ![p] = AllreduceSumHist(sendbuf, max_value)]
  /\ ppc' = [ppc EXCEPT ![p] = "done"]
  /\ UNCHANGED <<given, utility, psi, diag, tpc, max_cut, local_expectation,
                 local_hist, arrived, sendbuf, nreduce>>

----------------------------------------------------------------------------
(* Inputs *)

(* The symmetric matrices with a null diagonal and weights 0 .. MaxWeight *)
UpperPairs(n) == {vu \in (0 .. n - 1) \X (0 .. n - 1) : vu[1] < vu[2]}
SymmetricFrom(n, f) ==
  [e \in 1 .. n * n |->
     LET v == (e - 1) \div n
         u == (e - 1) % n
     IN  IF v = u THEN 0
         ELSE IF v < u THEN f[<<v, u>>] ELSE f[<<u, v>>]]
ValidAdjacency(n) ==
  {SymmetricFrom(n, f) : f \in [UpperPairs(n) -> Weights]}

(* What the call leaves alone starts, and stays, empty *)
NoUtility == kin = 0 /\ z = <<>> /\ k = 0 /\ cpc = "none"
NoRegisters(n, np) ==
  /\ psi = [p \in 0 .. np - 1 |-> <<>>]
  /\ psi_in = psi
  /\ gamma = 0
  /\ max_value = 0
(* nothing: what sendbuf and ret hold before the call writes them *)
StartOfCall(np, nothing) ==
  /\ ppc = [p \in 0 .. np - 1 |-> "entry"]
  /\ tpc = [p \in 0 .. np - 1 |-> [t \in Threads |-> "todo"]]
  /\ max_cut = [p \in 0 .. np - 1 |-> 0]
  /\ local_expectation = [p \in 0 .. np - 1 |-> 0]
  /\ local_hist = [p \in 0 .. np - 1 |-> <<>>]
  /\ arrived = {}
  /\ sendbuf = [p \in 0 .. np - 1 |-> nothing]
  /\ ret = [p \in 0 .. np - 1 |-> nothing]
  /\ nreduce = [p \in 0 .. np - 1 |-> 0]

(* diag before the call holds what is left of an earlier use: -1 stands
   for it, a value no cut takes. *)
InitBuildWith(n, np, adj) ==
  /\ op = "build"
  /\ nqubits = n
  /\ nprocs = np
  /\ schedule \in Schedules
  /\ adjacency = adj
  /\ diag = [p \in 0 .. np - 1 |-> [i \in 1 .. LocalSize(n, np) |-> -1]]
  /\ NoRegisters(n, np)
  /\ StartOfCall(np, 0)
  /\ NoUtility

InitBuild ==
  \E nnp \in Partitions :
    \E adj \in ValidAdjacency(nnp[1]) : InitBuildWith(nnp[1], nnp[2], adj)

NextBuild ==
  \E p \in Procs :
    \/ BuildEntry(p)
    \/ \E t \in Threads : BuildThread(p, t)
    \/ BuildAllreduce(p)
    \/ BuildReturn(p)

SpecBuild == InitBuild /\ [][NextBuild]_vars

(* Any 2 x 2 matrix of weights, well formed or not *)
InitBuildAny ==
  \E np \in {1, 2, 4} :
    \E adj \in [1 .. 4 -> Weights] : InitBuildWith(2, np, adj)

SpecBuildAny == InitBuildAny /\ [][NextBuild]_vars

----------------------------------------------------------------------------
(* What the cost function is meant to be, stated without the code's route
   through {-1,1} vectors: the weight of the edges a colouring cuts. *)

Bit(x, v) == (x \div (2 ^ v)) % 2

RECURSIVE CutWeightFrom(_, _, _, _)
CutWeightFrom(adj, n, x, e) ==
  IF e > n * n THEN 0
  ELSE (IF (e - 1) \div n < (e - 1) % n
           /\ Bit(x, (e - 1) \div n) # Bit(x, (e - 1) % n)
        THEN adj[e] ELSE 0)
       + CutWeightFrom(adj, n, x, e + 1)

CutWeight(adj, n, x) == CutWeightFrom(adj, n, x, 1)

Symmetric(adj, n) ==
  \A v \in 0 .. n - 1 : \A u \in 0 .. n - 1 : Adj(adj, n, v, u) = Adj(adj, n, u, v)

Triangle == <<0, 1, 1,  1, 0, 1,  1, 1, 0>>

AllDone == \A p \in Procs : ppc[p] = "done"

(* C1: once the call has returned on a rank, every entry diag[i] of the
   rank is the total weight of the edges cut by the colouring whose vertex
   v has the colour bit v of the global index rank * LocalSize + i; for
   the triangle that is 0 at indices 0 and 7 and 2 at every other index. *)
C1_CostIsCutWeight ==
  \A p \in Procs :
    (op = "build" /\ ppc[p] = "done") =>
      \A i \in 1 .. Len(diag[p]) :
        \E x \in {GlbStart(p, nqubits, nprocs) + i - 1} :
          /\ diag[p][i] = CutWeight(adjacency, nqubits, x)
          /\ (adjacency = Triangle) =>
                diag[p][i] = (IF x \in {0, 7} THEN 0 ELSE 2)

(* C1 witness: the triangle on two ranks, built: index 4 + 1 = 5 costs 2
   and index 7 costs 0 on rank 1. *)
C1_Witness ==
  /\ op = "build" /\ adjacency = Triangle /\ nprocs = 2 /\ AllDone
  /\ diag[1][2] = 2 /\ diag[1][4] = 0 /\ diag[0][1] = 0

(* Every entry of every shard *)
Entries == {diag[q][i] : q \in Procs, i \in 1 .. LocalSize(nqubits, nprocs)}

(* C2: the value returned on a rank is the maximum of the cost over all
   global indices, whatever the split among ranks and threads: every entry
   of every shard lies in 0 .. max_cost and one of them equals it. *)
C2_MaxIsGlobal ==
  \A p \in Procs :
    (op = "build" /\ ppc[p] = "done") =>
      /\ \A c \in Entries : 0 <= c /\ c <= ret[p]
      /\ ret[p] \in Entries
      /\ \A x \in 0 .. GlobalSize(nqubits) - 1 :
            CutWeight(adjacency, nqubits, x) <= ret[p]

(* C2 witness: four ranks, and the maximum returned on a rank exceeds
   every cost of its own shard. *)
C2_Witness ==
  /\ op = "build" /\ nprocs = 4 /\ AllDone
  /\ \E p \in Procs : \A i \in 1 .. Len(diag[p]) : diag[p][i] < ret[p]

(* C10: on a symmetric matrix with a null diagonal no rank stops on an
   assertion, and at every index of a rank that returned the quadratic
   form q is even and num_edges - q/2 is even. *)
C10_DivisionsExact ==
  \A p \in Procs :
    /\ op = "build" => ppc[p] # "aborted"
    /\ (op = "build" /\ ppc[p] = "done") =>
         \A i \in 0 .. LocalSize(nqubits, nprocs) - 1 :
           \E q \in {QuadraticForm(adjacency, nqubits,
                                   GlbStart(p, nqubits, nprocs) + i)} :
             /\ IsEven(q)
             /\ IsEven(SeqSum(adjacency) \div 2 - CDiv(q, 2))

(* C10 witness: a returned call on a graph of odd total weight with an
   index where the quadratic form is negative. *)
C10_Witness ==
  /\ op = "build" /\ AllDone
  /\ ~IsEven(SeqSum(adjacency) \div 2)
  /\ QuadraticForm(adjacency, nqubits, 1) < 0

(* C8: the call returns only on a matrix that is symmetric, has a null
   diagonal and an even sum of entries. *)
C8_MalformedRejected ==
  \A p \in Procs :
    (op = "build" /\ ppc[p] = "done") =>
      /\ Symmetric(adjacency, nqubits)
      /\ NullDiagonal(adjacency, nqubits)
      /\ IsEven(SeqSum(adjacency))


----------------------------------------------------------------------------
(* Inputs of the functions that read psi and diag *)

(* The unweighted graphs on n vertices *)
Graphs(n) == {SymmetricFrom(n, f) : f \in [UpperPairs(n) -> {0, 1}]}

(* The cost register InitializeVectorAsMaxCutCostFunction leaves for adj,
   as one global array *)
CostRegister(adj, n) ==
  [x \in 1 .. GlobalSize(n) |-> CutOfIndex(adj, n, SeqSum(adj) \div 2, x - 1).cut]

(* The local parts of a global array on np ranks *)
Shards(arr, np) ==
  [p \in 0 .. np - 1 |->
     SubSeq(arr, p * (Len(arr) \div np) + 1, (p + 1) * (Len(arr) \div np))]

(* States of n qubits, not normalised: equal amplitudes; amplitudes whose
   norms x^2 + 1 all differ; amplitudes with negative and null parts *)
PsiArrays(n) ==
  { [x \in 1 .. GlobalSize(n) |-> <<1, 0>>],
    [x \in 1 .. GlobalSize(n) |-> <<x - 1, 1>>],
    [x \in 1 .. GlobalSize(n) |-> <<((x - 1) % 3) - 1, -((x - 1) % 2)>>] }

Gammas == {-1, 1, 2}

(* psi of n qubits and the cost register of a graph of dn vertices *)
InitReadersWith(o, n, np, dn, adj, parr, g, mv) ==
  /\ op = o
  /\ nqubits = n
  /\ nprocs = np
  /\ schedule \in Schedules
  /\ adjacency = adj
  /\ gamma = g
  /\ max_value = mv
  /\ psi = Shards(parr, np)
  /\ psi_in = Shards(parr, np)
  /\ diag = Shards(CostRegister(adj, dn), np)
  /\ StartOfCall(np, IF o = "hist" THEN <<>> ELSE 0)
  /\ NoUtility

InitPhase ==
  \E nnp \in Partitions : \E adj \in Graphs(nnp[1]) :
    \E parr \in PsiArrays(nnp[1]) : \E g \in Gammas :
      InitReadersWith("phase", nnp[1], nnp[2], nnp[1], adj, parr, g, 0)

NextPhase ==
  \E p \in Procs :
    \/ PhaseEntry(p)
    \/ \E t \in Threads : PhaseThread(p, t)
    \/ PhaseReturn(p)

SpecPhase == InitPhase /\ [][NextPhase]_vars

InitExpect ==
  \E nnp \in Partitions : \E adj \in Graphs(nnp[1]) :
    \E parr \in PsiArrays(nnp[1]) :
      InitReadersWith("expect", nnp[1], nnp[2], nnp[1], adj, parr, 0, 0)

NextExpect ==
  \E p \in Procs :
    \/ ExpectEntry(p)
    \/ \E t \in Threads : ExpectThread(p, t)
    \/ ExpectAllreduce(p)
    \/ ExpectReturn(p)

SpecExpect == InitExpect /\ [][NextExpect]_vars

(* max_value: the max_cut the builder returned, or one more *)
InitHist ==
  \E nnp \in Partitions : \E adj \in Graphs(nnp[1]) :
    \E parr \in PsiArrays(nnp[1]) :
      \E mc \in {SeqMax(CostRegister(adj, nnp[1]))} : \E mv \in {mc, mc + 1} :
        InitReadersWith("hist", nnp[1], nnp[2], nnp[1], adj, parr, 0, mv)

NextHist ==
  \E p \in Procs :
    \/ HistEntry(p)
    \/ \E t \in Threads : HistThread(p, t)
    \/ HistAllreduce(p)
    \/ HistReturn(p)

SpecHist == InitHist /\ [][NextHist]_vars

(* psi of n qubits with the cost register of n + 1 qubits: the local and
   the global sizes both differ, and every diag[i] the loops would read
   exists. *)
InitMismatch ==
  \E o \in {"phase", "expect", "hist"} :
    \E nnp \in {c \in Partitions : c[1] < MaxQubits} :
      \E adj \in Graphs(nnp[1] + 1) : \E parr \in PsiArrays(nnp[1]) :
        InitReadersWith(o, nnp[1], nnp[2], nnp[1] + 1, adj, parr, 1,
                        SeqMax(CostRegister(adj, nnp[1] + 1)) + 1)

NextMismatch ==
  \E p \in Procs :
    \/ PhaseEntry(p)
    \/ HistEntry(p)
    \/ ExpectEntry(p)
    \/ \E t \in Threads : ExpectThread(p, t)
    \/ ExpectAllreduce(p)
    \/ ExpectReturn(p)

SpecMismatch == InitMismatch /\ [][NextMismatch]_vars

----------------------------------------------------------------------------
(* What the readers are meant to return, stated on the whole array with no
   split into ranks and threads *)

(* The register as one global array: rank 0's part, then rank 1's, ... *)
GlobalOf(reg) ==
  [x \in 1 .. nprocs * Len(reg[0]) |->
     reg[(x - 1) \div Len(reg[0])][((x - 1) % Len(reg[0])) + 1]]

(* sum over all global indices of cost * |amplitude|^2 *)
WeightedCost(ps, dg) ==
  SumOver([x \in 1 .. Len(ps) |-> dg[x] * Norm(ps[x])], 1 .. Len(ps))

(* the probability mass of the indices of cost b *)
MassOfCost(ps, dg, b) ==
  SumOver([x \in 1 .. Len(ps) |-> Norm(ps[x])], {x \in 1 .. Len(ps) : dg[x] = b})

TotalMass(ps) == SumOver([x \in 1 .. Len(ps) |-> Norm(ps[x])], 1 .. Len(ps))

IsUniform(ps) == \A x \in 1 .. Len(ps) : Norm(ps[x]) = 1

(* C4: the value returned on every rank is the sum over all global indices
   of cost * |amplitude|^2, whatever the split among ranks and threads; for
   amplitudes all of norm 1 (the uniform state, times the number of
   indices) it is the sum of all costs, that is their mean times the
   number of indices. *)
C4_ExpectationIsWeightedSum ==
  \A p \in Procs :
    (op = "expect" /\ ppc[p] = "done") =>
      \E ps \in {GlobalOf(psi)} : \E dg \in {GlobalOf(diag)} :
        /\ ret[p] = WeightedCost(ps, dg)
        /\ IsUniform(ps) => ret[p] = SeqSum(dg)

(* C4 witness: four ranks, amplitudes of different norms, a non-null value
   returned everywhere. *)
C4_Witness ==
  /\ op = "expect" /\ nprocs = 4 /\ AllDone
  /\ ~IsUniform(GlobalOf(psi))
  /\ \A p \in Procs : ret[p] > 0

Returned(h, ps, dg, mv) ==
  /\ Len(h) = mv + 1
  /\ \A b \in 0 .. mv : h[b + 1] = MassOfCost(ps, dg, b)
  /\ SeqSum(h) = TotalMass(ps)

(* C3 as stated: with every cost in 0 .. max_value the call returns, and
   returns max_value + 1 buckets, bucket b the mass of the indices of cost
   b. *)
C3_HistogramReturned ==
  \A p \in Procs :
    op = "hist" =>
      /\ ppc[p] # "aborted"
      /\ ppc[p] = "done" =>
           Returned(ret[p], GlobalOf(psi), GlobalOf(diag), max_value)

(* C3 amended: the same for max_value >= 1. *)
C3_HistogramOfPositiveMax ==
  \A p \in Procs :
    (op = "hist" /\ max_value >= 1) =>
      /\ ppc[p] # "aborted"
      /\ ppc[p] = "done" =>
           Returned(ret[p], GlobalOf(psi), GlobalOf(diag), max_value)

(* C3 witness: two ranks, amplitudes of different norms, two buckets or
   more filled. *)
C3_Witness ==
  /\ op = "hist" /\ nprocs = 2 /\ AllDone /\ max_value >= 1
  /\ ~IsUniform(GlobalOf(psi))
  /\ ret[0][1] > 0 /\ ret[0][2] > 0

(* What the code returns for given registers, as a function of them: the
   threads folded in thread order, the ranks reduced. *)
RECURSIVE FoldExpectation(_, _, _)
FoldExpectation(ps, dg, t) ==
  IF t = NumThreads THEN 0
  ELSE ReduceSum(FoldExpectation(ps, dg, t + 1), ExpectChunk(ps, dg, t))

ExpectationOf(psr, dgr) ==
  AllreduceSum([q \in Procs |-> FoldExpectation(psr[q], dgr[q], 0)])

RECURSIVE FoldHist(_, _, _, _)
FoldHist(ps, dg, mv, t) ==
  IF t = NumThreads THEN ZeroHist(mv)
  ELSE MergeHist(FoldHist(ps, dg, mv, t + 1),
                 PrivateHist(ps, dg, IterationsOf(t, Len(ps)), mv))

HistogramOf(psr, dgr, mv) ==
  AllreduceSumHist([q \in Procs |-> FoldHist(psr[q], dgr[q], mv, 0)], mv)

(* C6: once the call has returned on a rank, every |amplitude|^2 of the
   rank is what it was and diag is untouched; once it has returned on all,
   the expectation value and the histogram computed from psi are those
   computed from psi as it was. *)
C6_PhasePreservesMeasure ==
  /\ \A p \in Procs :
       (op = "phase" /\ ppc[p] = "done") =>
         /\ \A i \in 1 .. Len(psi[p]) : Norm(psi[p][i]) = Norm(psi_in[p][i])
         /\ diag[p] = Shards(CostRegister(adjacency, nqubits), nprocs)[p]
  /\ (op = "phase" /\ AllDone) =>
       \E mv \in {SeqMax(CostRegister(adjacency, nqubits)) + 1} :
         /\ ExpectationOf(psi, diag) = ExpectationOf(psi_in, diag)
         /\ HistogramOf(psi, diag, mv) = HistogramOf(psi_in, diag, mv)

(* C6 witness: the call returned on two ranks and changed an amplitude. *)
C6_Witness ==
  /\ op = "phase" /\ nprocs = 2 /\ AllDone
  /\ \E i \in 1 .. Len(psi[1]) :
       psi[1][i] # psi_in[1][i] /\ psi[1][i][1] # 0 /\ psi[1][i][2] # 0

(* C7: with registers of different sizes no rank reads an element, and
   none returns. *)
C7_MismatchRejected ==
  \A p \in Procs :
    ~SameSizes(p) =>
      /\ ppc[p] # "done"
      /\ \A t \in Threads : tpc[p][t] = "todo"

----------------------------------------------------------------------------
(* The round trip through namespace utility *)

(* What ConvertToDecimal leaves in k.  On an empty vector z.size()-1 wraps
   to the largest unsigned and the loop, then line 77, read z out of
   bounds: undefined behaviour, modelled as a crash or any value of k. *)
ConvertToDecimalOutcomes(zz) ==
  IF Len(zz) = 0
  THEN {[pc |-> "crashed", k |-> 0]} \cup {[pc |-> "decimal", k |-> g] : g \in {0, 1}}
  ELSE {[pc |-> "decimal", k |-> ConvertToDecimal(zz)]}

(* ConvertToBinary(kin, z), lines 44-58 *)
ToBinary ==
  /\ op = "codec"
  /\ cpc = "start"
  /\ IF TooLargeDecimal(kin, z)
     THEN cpc' = "aborted" /\ z' = z
     ELSE cpc' = "binary" /\ z' = ConvertToBinary(kin, z)
  /\ UNCHANGED <<given, kin, k, psi, diag, ppc, tpc, max_cut, local_expectation,
                 local_hist, arrived, sendbuf, ret, nreduce>>

(* ConvertToDecimal(z, k), lines 69-78 *)
ToDecimal ==
  /\ op = "codec"
  /\ cpc = "binary"
  /\ \E r \in ConvertToDecimalOutcomes(z) : cpc' = r.pc /\ k' = r.k
  /\ UNCHANGED <<given, kin, z, psi, diag, ppc, tpc, max_cut, local_expectation,
                 local_hist, arrived, sendbuf, ret, nreduce>>

(* A vector of width bits and a decimal number up to 2^width, the first
   that does not fit *)
InitCodec ==
  /\ op = "codec"
  /\ nprocs = 1
  /\ nqubits \in 0 .. MaxWidth
  /\ schedule = "block"
  /\ adjacency = <<>>
  /\ gamma = 0
  /\ max_value = 0
  /\ psi = [p \in {0} |-> <<>>]
  /\ psi_in = psi
  /\ diag = [p \in {0} |-> <<>>]
  /\ StartOfCall(1, 0)
  /\ kin \in 0 .. 2 ^ nqubits
  /\ z = [pos \in 1 .. nqubits |-> 0]
  /\ k = 0
  /\ cpc = "start"

NextCodec == ToBinary \/ ToDecimal

SpecCodec == InitCodec /\ [][NextCodec]_vars

(* C5: for every width and every k in 0 .. 2^width - 1 the round trip ends
   and gives k back. *)
C5_RoundTrip ==
  (op = "codec" /\ kin < 2 ^ Len(z)) =>
    /\ cpc # "crashed"
    /\ cpc = "decimal" => k = kin

----------------------------------------------------------------------------
(* Every rank of the group calls the same function with matching, valid
   arguments, on one or two ranks and the complete graph of one or two
   vertices.  Threads and ranks keep running: a step that stays possible
   is eventually taken. *)

InitCollective ==
  \E nnp \in {c \in Partitions : c[1] <= 2 /\ c[2] <= 2} :
    \E adj \in {SymmetricFrom(nnp[1], [vu \in UpperPairs(nnp[1]) |-> 1])} :
      \/ InitBuildWith(nnp[1], nnp[2], adj)
      \/ \E parr \in PsiArrays(nnp[1]) : \E o \in {"phase", "expect", "hist"} :
           InitReadersWith(o, nnp[1], nnp[2], nnp[1], adj, parr, 1,
                           SeqMax(CostRegister(adj, nnp[1])) + 1)

NextCollective == NextBuild \/ NextPhase \/ NextExpect \/ NextHist

SpecCollective ==
  InitCollective /\ [][NextCollective]_vars /\ WF_vars(NextCollective)

(* The collective reductions of one call *)
ReductionsOf(o) == IF o = "phase" THEN 0 ELSE 1

(* C9: a rank issues no reduction in ApplyCostPhase and one in each of the
   three others, never more and exactly that many once it has returned; it
   enters the reduction only with every thread of its parallel region
   through; no rank stops on a failure and every rank eventually
   returns. *)
C9_OneReductionThenReturn ==
  /\ [](\A p \in Procs :
          /\ nreduce[p] <= ReductionsOf(op)
          /\ ppc[p] = "done" => nreduce[p] = ReductionsOf(op)
          /\ nreduce[p] > 0 => \A t \in Threads : tpc[p][t] = "merged"
          /\ nreduce[p] > 0 <=> p \in arrived
          /\ ppc[p] # "aborted")
  /\ <>AllDone

(* C9 witness: two ranks have returned from the histogram, one reduction
   each. *)
C9_Witness ==
  /\ op = "hist" /\ nprocs = 2 /\ AllDone
  /\ \A p \in Procs : nreduce[p] = 1

====
